---- MODULE Spec2Model ----
(***************************************************************************)
(* Model of backend/main.py: the PDF -> Audiveris -> MuseScore pipeline.   *)
(* One behaviour is one run of main().  The external programs are opaque:  *)
(* each invocation returns any exit code and may leave any files behind.   *)
(* SpecLocator applies newest_export to arbitrary trees; SpecRun models    *)
(* backend/run.py, the entry point that reads .env and launches main.py.   *)
(***************************************************************************)
EXTENDS Integers, Sequences, FiniteSets, TLC

VARIABLES pc, exists, force, no_opus, outfiles, outdirs, tmp, aud_out, job,
          exported, book, log, exitStatus, err, dotenv, env, pdf_name

vars == <<pc, exists, force, no_opus, outfiles, outdirs, tmp, aud_out, job,
          exported, book, log, exitStatus, err, dotenv, env, pdf_name>>

(* ------------------------------ bounds --------------------------------- *)
\* largest exit code a child process returns
MaxExitCode == 1
\* largest modification timestamp of a file left in audiveris_out
MaxTime == 2
\* most files the transcription pass leaves in audiveris_out
MaxTranscribed == 2
\* most files the export pass adds to audiveris_out
MaxExported == 1

ExitCodes == 0..MaxExitCode
Times == 1..MaxTime

(* ------------------------------ paths ---------------------------------- *)
\* a path given on the command line, or a fixed path inside the workspace
P(name) == [path |-> name]
\* the i-th entry enumerated under audiveris_out, with its extension
Entry(i, e) == [root |-> "audiveris_out", idx |-> i, ext |-> e]
\* a literal command-line word
Lit(s) == [lit |-> s]
\* no path bound yet (Python: the local variable is unassigned)
NoPath == [unbound |-> TRUE]

InputNames == <<"pdf_in", "audiveris_exe", "musescore_exe", "plugin_qml">>
OutputNames == {"out_mxl", "out_pdf"}
\* extensions of the files an OMR run may leave behind
Exts == {"mxl", "musicxml", "xml", "omr", "log"}
\* the rglob patterns of newest_export, in the order they are concatenated
ExportPatterns == <<"mxl", "musicxml", "xml">>
BookPattern == "omr"

FileRecs == [ext : Exts, mtime : Times]

RECURSIVE SeqsUpTo(_, _)
\* all sequences over S of length at most n
SeqsUpTo(S, n) ==
    IF n = 0 THEN {<<>>}
    ELSE LET shorter == SeqsUpTo(S, n - 1)
         IN  shorter \cup {Append(s, x) : s \in {t \in shorter : Len(t) = n - 1}, x \in S}

(* --------------------------- run_cmd ----------------------------------- *)
\* variant: only a negative return code (death by signal) is treated as failure
run_cmd_raises_signal_only(rc) == rc < 0

\* run_cmd raises RuntimeError exactly when the child's return code is not 0
run_cmd_raises(rc) == rc # 0

(* ------------------------- Artifact Locator ---------------------------- *)
RECURSIVE rglob_from(_, _, _)
rglob_from(dir, e, i) ==
    IF i > Len(dir) THEN <<>>
    ELSE IF dir[i].ext = e
         THEN <<Entry(i, e)>> \o rglob_from(dir, e, i + 1)
         ELSE rglob_from(dir, e, i + 1)

\* out_dir.rglob("*." + e): the matching entries in enumeration order
rglob(dir, e) == rglob_from(dir, e, 1)

\* p.stat().st_mtime
st_mtime(dir, p) == dir[p.idx].mtime

\* variant: min() in place of max(), the first element whose key is minimal
py_min(dir, cands) ==
    LET i == CHOOSE k \in 1..Len(cands) :
                 /\ \A j \in 1..Len(cands) : st_mtime(dir, cands[j]) >= st_mtime(dir, cands[k])
                 /\ \A j \in 1..(k - 1) : st_mtime(dir, cands[j]) > st_mtime(dir, cands[k])
    IN  cands[i]

\* Python max(seq, key=mtime): the first element whose key is maximal
py_max(dir, cands) ==
    LET i == CHOOSE k \in 1..Len(cands) :
                 /\ \A j \in 1..Len(cands) : st_mtime(dir, cands[j]) <= st_mtime(dir, cands[k])
                 /\ \A j \in 1..(k - 1) : st_mtime(dir, cands[j]) < st_mtime(dir, cands[k])
    IN  cands[i]

export_candidates(dir) ==
    rglob(dir, ExportPatterns[1]) \o rglob(dir, ExportPatterns[2]) \o rglob(dir, ExportPatterns[3])

\* variant: max(candidates, default=out_dir), no failure when nothing matches
newest_export_default(dir) ==
    LET candidates == export_candidates(dir)
    IN  IF candidates = <<>>
        THEN [raised |-> FALSE, value |-> P("audiveris_out")]
        ELSE [raised |-> FALSE, value |-> py_max(dir, candidates)]

newest_export(dir) ==
    LET candidates == export_candidates(dir)
    IN  IF candidates = <<>>
        THEN [raised |-> TRUE, msg |-> "No MusicXML export found under", names |-> {"audiveris_out"}]
        ELSE [raised |-> FALSE, value |-> py_max(dir, candidates)]

\* variant: the oldest book is chosen
newest_omr_book_oldest(dir) ==
    LET books == rglob(dir, BookPattern)
    IN  IF books = <<>>
        THEN [raised |-> TRUE, msg |-> "No .omr book found under", names |-> {"audiveris_out"}]
        ELSE [raised |-> FALSE, value |-> py_min(dir, books)]

\* variant: max(books, default=out_dir), no failure when there is no book
newest_omr_book_default(dir) ==
    LET books == rglob(dir, BookPattern)
    IN  IF books = <<>>
        THEN [raised |-> FALSE, value |-> P("audiveris_out")]
        ELSE [raised |-> FALSE, value |-> py_max(dir, books)]

newest_omr_book(dir) ==
    LET books == rglob(dir, BookPattern)
    IN  IF books = <<>>
        THEN [raised |-> TRUE, msg |-> "No .omr book found under", names |-> {"audiveris_out"}]
        ELSE [raised |-> FALSE, value |-> py_max(dir, books)]

(* ------------------------- Job Spec Builder ---------------------------- *)
\* variant: the score and the plugin arguments are exchanged
build_job_json_swapped(score_in, out_mxl, out_pdf, plugin_qml) ==
    << [in |-> plugin_qml, plugin |-> score_in, out |-> <<out_mxl, out_pdf>>] >>

\* variant: the two output paths are listed PDF first
build_job_json_pdf_first(score_in, out_mxl, out_pdf, plugin_qml) ==
    << [in |-> score_in, plugin |-> plugin_qml, out |-> <<out_pdf, out_mxl>>] >>

build_job_json(score_in, out_mxl, out_pdf, plugin_qml) ==
    << [in |-> score_in, plugin |-> plugin_qml, out |-> <<out_mxl, out_pdf>>] >>

\* json.dumps(job): a list of objects, each the key/value pairs of the dict
\* literal of lines 63-67 in insertion order
json_dumps(j) ==
    [i \in 1..Len(j) |->
        << [key |-> "in", value |-> j[i].in],
           [key |-> "plugin", value |-> j[i].plugin],
           [key |-> "out", value |-> j[i].out] >>]

(* ------------------------- command vectors ----------------------------- *)
aud_cmd_1(f) ==
    <<P("audiveris_exe"), Lit("-batch"), Lit("-transcribe"), Lit("-output"), P("audiveris_out")>>
    \o (IF f THEN <<Lit("-force")>> ELSE <<>>)
    \o <<P("pdf_in")>>

\* variant: the OPUS option is added when bundling is disabled
aud_cmd_2_inverted(noOpus, b) ==
    <<P("audiveris_exe"), Lit("-batch"), Lit("-export"), Lit("-output"), P("audiveris_out")>>
    \o (IF noOpus
        THEN <<Lit("-option"), Lit("org.audiveris.omr.sheet.BookManager.useOpus=true")>>
        ELSE <<>>)
    \o <<b>>

aud_cmd_2(noOpus, b) ==
    <<P("audiveris_exe"), Lit("-batch"), Lit("-export"), Lit("-output"), P("audiveris_out")>>
    \o (IF ~noOpus
        THEN <<Lit("-option"), Lit("org.audiveris.omr.sheet.BookManager.useOpus=true")>>
        ELSE <<>>)
    \o <<b>>

ms_cmd == <<P("musescore_exe"), Lit("-j"), P("job.json")>>

(* ------------------------- validation ---------------------------------- *)
InputLabel(n) ==
    CASE n = "pdf_in" -> "PDF not found"
      [] n = "audiveris_exe" -> "Audiveris.exe not found"
      [] n = "musescore_exe" -> "MuseScore.exe not found"
      [] n = "plugin_qml" -> "plugin qml not found"

\* variant: only the input PDF is checked
first_missing_input_pdf_only(ex) ==
    IF "pdf_in" \in ex THEN "" ELSE "pdf_in"

\* lines 86-96: the first path, in checking order, that does not exist ("" if none)
first_missing_input(ex) ==
    IF \A k \in 1..Len(InputNames) : InputNames[k] \in ex
    THEN ""
    ELSE InputNames[CHOOSE k \in 1..Len(InputNames) :
                        /\ InputNames[k] \notin ex
                        /\ \A j \in 1..(k - 1) : InputNames[j] \in ex]

\* variant: only the notation output is checked
first_missing_output_mxl_only(outs) ==
    IF "out_mxl" \notin outs THEN "out_mxl" ELSE ""

\* lines 154-157: the output named by the SystemExit raised ("" if none is raised)
first_missing_output(outs) ==
    IF "out_mxl" \notin outs THEN "out_mxl"
    ELSE IF "out_pdf" \notin outs THEN "out_pdf"
    ELSE ""

OutputLabel(n) ==
    CASE n = "out_mxl" -> "Output MXL not created"
      [] n = "out_pdf" -> "Output PDF not created"

(* ------------------------- process exit -------------------------------- *)
\* the process has not terminated
Running == -1
\* exit status of a normal return from main()
ExitOk == 0
\* exit status of SystemExit(str) and of an uncaught exception
ExitFail == 1
NoErr == [exc |-> "none", msg |-> "", names |-> {}]

\* variant: the tree is removed only when the body raised
with_exit_failure_only(raised) == IF raised THEN "removed" ELSE "live"

\* variant: the tree is removed only at the normal end of the body
with_exit_normal_only(raised) == IF raised THEN "live" ELSE "removed"

\* TemporaryDirectory.__exit__: the tree is removed whether or not the body raised
with_exit(raised) == "removed"

(* ------------------------------ Init ----------------------------------- *)
Init ==
    /\ pc = "start"
    /\ exists \in SUBSET {InputNames[k] : k \in 1..Len(InputNames)}
    /\ force \in BOOLEAN
    /\ no_opus \in BOOLEAN
    /\ outfiles \in {{}, OutputNames}
    /\ outdirs = (outfiles # {})
    /\ tmp = "none"
    /\ aud_out = <<>>
    /\ job = <<>>
    /\ exported = NoPath
    /\ book = NoPath
    /\ log = <<>>
    /\ exitStatus = Running
    /\ err = NoErr
    /\ dotenv = [exists |-> FALSE, lines |-> <<>>]
    /\ env = <<>>
    /\ pdf_name = <<"score", "pdf">>

(* ------------------------------ helpers -------------------------------- *)
\* an exception leaves main(): the process ends with a traceback or message
Die(exc, msg, names) ==
    /\ pc' = "done"
    /\ exitStatus' = ExitFail
    /\ err' = [exc |-> exc, msg |-> msg, names |-> names]

\* an exception propagates out of the with-block of lines 103-152; whatever
\* the failed step left in the workspace goes with it
Unwind(logNow) ==
    /\ tmp' = with_exit(TRUE)
    /\ IF with_exit(TRUE) = "removed"
       THEN aud_out' = <<>> /\ job' = <<>> /\ log' = Append(logNow, [ev |-> "release"])
       ELSE aud_out' = aud_out /\ job' = job /\ log' = logNow

(* ------------------------------ actions -------------------------------- *)
\* lines 86-96
ValidateInputs ==
    /\ pc = "start"
    /\ LET m == first_missing_input(exists)
       IN  IF m # ""
           THEN /\ Die("SystemExit", InputLabel(m), {m})
                /\ log' = log
           ELSE /\ pc' = "mkdirs"
                /\ log' = Append(log, [ev |-> "validated", paths |-> exists])
                /\ UNCHANGED <<exitStatus, err>>
    /\ UNCHANGED <<exists, force, no_opus, outfiles, outdirs, tmp, aud_out, job, exported, book, dotenv, env, pdf_name>>

\* variant: stale files at the two output paths are removed first
MakeOutDirs_clean ==
    /\ pc = "mkdirs"
    /\ outdirs' = TRUE
    /\ outfiles' = {}
    /\ log' = Append(log, [ev |-> "mkdir_out"])
    /\ pc' = "acquire"
    /\ UNCHANGED <<exists, force, no_opus, tmp, aud_out, job, exported, book, exitStatus, err, dotenv, env, pdf_name>>

\* lines 98-101
MakeOutDirs ==
    /\ pc = "mkdirs"
    /\ outdirs' = TRUE
    /\ log' = Append(log, [ev |-> "mkdir_out"])
    /\ pc' = "acquire"
    /\ UNCHANGED <<exists, force, no_opus, outfiles, tmp, aud_out, job, exported, book, exitStatus, err, dotenv, env, pdf_name>>

\* lines 103-106
AcquireWorkspace ==
    /\ pc = "acquire"
    /\ tmp' = "live"
    /\ aud_out' = <<>>
    /\ log' = Append(log, [ev |-> "acquire"])
    /\ pc' = "transcribe"
    /\ UNCHANGED <<exists, force, no_opus, outfiles, outdirs, job, exported, book, exitStatus, err, dotenv, env, pdf_name>>

\* variant: a failed transcription is attempted again
Transcribe_retry ==
    /\ pc = "transcribe"
    /\ \E rc \in ExitCodes :
         LET log1 == Append(log, [ev |-> "run", cmd |-> aud_cmd_1(force), cwd |-> NoPath, rc |-> rc])
         IN  IF run_cmd_raises(rc)
             THEN /\ log' = log1
                  /\ UNCHANGED <<pc, tmp, aud_out, job, exitStatus, err>>
             ELSE \E new \in SeqsUpTo(FileRecs, MaxTranscribed) :
                  /\ pc' = "decide"
                  /\ aud_out' = aud_out \o new
                  /\ log' = log1
                  /\ UNCHANGED <<tmp, job, exitStatus, err>>
    /\ UNCHANGED <<exists, force, no_opus, outfiles, outdirs, exported, book, dotenv, env, pdf_name>>

\* lines 110-119
Transcribe ==
    /\ pc = "transcribe"
    /\ \E rc \in ExitCodes :
         LET log1 == Append(log, [ev |-> "run", cmd |-> aud_cmd_1(force), cwd |-> NoPath, rc |-> rc])
         IN  IF run_cmd_raises(rc)
             THEN /\ Die("RuntimeError", "Command failed with exit code", {})
                  /\ Unwind(log1)
             ELSE \E new \in SeqsUpTo(FileRecs, MaxTranscribed) :
                  /\ pc' = "decide"
                  /\ aud_out' = aud_out \o new
                  /\ log' = log1
                  /\ UNCHANGED <<tmp, job, exitStatus, err>>
    /\ UNCHANGED <<exists, force, no_opus, outfiles, outdirs, exported, book, dotenv, env, pdf_name>>

\* lines 122-128
Decide ==
    /\ pc = "decide"
    /\ LET r == newest_export(aud_out)
           log1 == Append(log, [ev |-> "newest_export", raised |-> r.raised])
       IN  IF ~r.raised
           THEN /\ exported' = r.value
                /\ log' = Append(log1, [ev |-> "info_single", path |-> r.value])
                /\ pc' = "job"
                /\ UNCHANGED <<book, tmp, aud_out, job, exitStatus, err>>
           ELSE LET b == newest_omr_book(aud_out)
                    log2 == Append(log1, [ev |-> "newest_omr_book", raised |-> b.raised])
                IN  IF b.raised
                    THEN /\ Die("RuntimeError", b.msg, b.names)
                         /\ Unwind(log2)
                         /\ UNCHANGED <<exported, book>>
                    ELSE /\ book' = b.value
                         /\ log' = Append(log2, [ev |-> "info_book", path |-> b.value])
                         /\ pc' = "export"
                         /\ UNCHANGED <<exported, tmp, aud_out, job, exitStatus, err>>
    /\ UNCHANGED <<exists, force, no_opus, outfiles, outdirs, dotenv, env, pdf_name>>

\* variant: when the repeated lookup fails the run carries on with the book
ExportPass_fallback ==
    /\ pc = "export"
    /\ \E rc \in ExitCodes :
         LET log1 == Append(log, [ev |-> "run", cmd |-> aud_cmd_2(no_opus, book), cwd |-> NoPath, rc |-> rc])
         IN  IF run_cmd_raises(rc)
             THEN /\ Die("RuntimeError", "Command failed with exit code", {})
                  /\ Unwind(log1)
                  /\ UNCHANGED exported
             ELSE \E new \in SeqsUpTo(FileRecs, MaxExported) :
                  LET dir1 == aud_out \o new
                      r == newest_export(dir1)
                      log2 == Append(log1, [ev |-> "newest_export", raised |-> r.raised])
                      found == IF r.raised THEN book ELSE r.value
                  IN  /\ exported' = found
                      /\ aud_out' = dir1
                      /\ log' = Append(log2, [ev |-> "info_two", path |-> found])
                      /\ pc' = "job"
                      /\ UNCHANGED <<tmp, job, exitStatus, err>>
    /\ UNCHANGED <<exists, force, no_opus, outfiles, outdirs, book, dotenv, env, pdf_name>>

\* lines 130-144
ExportPass ==
    /\ pc = "export"
    /\ \E rc \in ExitCodes :
         LET log1 == Append(log, [ev |-> "run", cmd |-> aud_cmd_2(no_opus, book), cwd |-> NoPath, rc |-> rc])
         IN  IF run_cmd_raises(rc)
             THEN /\ Die("RuntimeError", "Command failed with exit code", {})
                  /\ Unwind(log1)
                  /\ UNCHANGED exported
             ELSE \E new \in SeqsUpTo(FileRecs, MaxExported) :
                  LET dir1 == aud_out \o new
                      r == newest_export(dir1)
                      log2 == Append(log1, [ev |-> "newest_export", raised |-> r.raised])
                  IN  IF r.raised
                      THEN /\ Die("RuntimeError", r.msg, r.names)
                           /\ Unwind(log2)
                           /\ UNCHANGED exported
                      ELSE /\ exported' = r.value
                           /\ aud_out' = dir1
                           /\ log' = Append(log2, [ev |-> "info_two", path |-> r.value])
                           /\ pc' = "job"
                           /\ UNCHANGED <<tmp, job, exitStatus, err>>
    /\ UNCHANGED <<exists, force, no_opus, outfiles, outdirs, book, dotenv, env, pdf_name>>

\* lines 148-149
BuildJob ==
    /\ pc = "job"
    /\ job' = build_job_json(exported, P("out_mxl"), P("out_pdf"), P("plugin_qml"))
    /\ log' = Append(log, [ev |-> "write_job", content |-> job'])
    /\ pc' = "editor"
    /\ UNCHANGED <<exists, force, no_opus, outfiles, outdirs, tmp, aud_out, exported, book, exitStatus, err, dotenv, env, pdf_name>>

\* lines 151-152, and the normal exit of the with-block
RunEditor ==
    /\ pc = "editor"
    /\ \E rc \in ExitCodes, created \in SUBSET OutputNames :
         LET log1 == Append(log, [ev |-> "run", cmd |-> ms_cmd, cwd |-> P("tmp"), rc |-> rc,
                                  wrote |-> created])
         IN  /\ outfiles' = outfiles \cup created
             /\ IF run_cmd_raises(rc)
                THEN /\ Die("RuntimeError", "Command failed with exit code", {})
                     /\ Unwind(log1)
                ELSE /\ pc' = "validate"
                     /\ tmp' = with_exit(FALSE)
                     /\ IF with_exit(FALSE) = "removed"
                        THEN aud_out' = <<>> /\ job' = <<>> /\ log' = Append(log1, [ev |-> "release"])
                        ELSE aud_out' = aud_out /\ job' = job /\ log' = log1
                     /\ UNCHANGED <<exitStatus, err>>
    /\ UNCHANGED <<exists, force, no_opus, outdirs, exported, book, dotenv, env, pdf_name>>

\* lines 154-161
ValidateOutputs ==
    /\ pc = "validate"
    /\ LET m == first_missing_output(outfiles)
       IN  IF m # ""
           THEN /\ Die("SystemExit", OutputLabel(m), {m})
                /\ log' = Append(log, [ev |-> "check_outputs", ok |-> FALSE])
           ELSE /\ pc' = "done"
                /\ exitStatus' = ExitOk
                /\ err' = err
                /\ log' = Append(Append(log, [ev |-> "check_outputs", ok |-> TRUE]),
                                 [ev |-> "report", mxl |-> P("out_mxl"), pdf |-> P("out_pdf")])
    /\ UNCHANGED <<exists, force, no_opus, outfiles, outdirs, tmp, aud_out, job, exported, book, dotenv, env, pdf_name>>

Next ==
    \/ ValidateInputs
    \/ MakeOutDirs
    \/ AcquireWorkspace
    \/ Transcribe
    \/ Decide
    \/ ExportPass
    \/ BuildJob
    \/ RunEditor
    \/ ValidateOutputs

Spec == Init /\ [][Next]_vars


(* --------------- the Artifact Locator on arbitrary trees --------------- *)
\* most entries of a tree handed to newest_export on its own
MaxTree == 3
\* largest modification timestamp in such a tree
MaxTreeTime == 3

InitLocator ==
    /\ pc = "locate"
    /\ aud_out \in SeqsUpTo([ext : Exts, mtime : 1..MaxTreeTime], MaxTree)
    /\ exists = {InputNames[k] : k \in 1..Len(InputNames)}
    /\ force = FALSE
    /\ no_opus = FALSE
    /\ outfiles = {}
    /\ outdirs = TRUE
    /\ tmp = "live"
    /\ job = <<>>
    /\ exported = NoPath
    /\ book = NoPath
    /\ log = <<>>
    /\ exitStatus = Running
    /\ err = NoErr
    /\ dotenv = [exists |-> FALSE, lines |-> <<>>]
    /\ env = <<>>
    /\ pdf_name = <<"score", "pdf">>

\* lines 38-46: one call of newest_export(aud_out)
Locate ==
    /\ pc = "locate"
    /\ LET r == newest_export(aud_out)
       IN  /\ log' = Append(log, [ev |-> "newest_export", raised |-> r.raised])
           /\ IF r.raised
              THEN /\ err' = [exc |-> "RuntimeError", msg |-> r.msg, names |-> r.names]
                   /\ UNCHANGED exported
              ELSE /\ exported' = r.value
                   /\ UNCHANGED err
    /\ pc' = "located"
    /\ UNCHANGED <<exists, force, no_opus, outfiles, outdirs, tmp, aud_out, job, book, exitStatus, dotenv, env, pdf_name>>

NextLocator == Locate

SpecLocator == InitLocator /\ [][NextLocator]_vars

(* ------------- backend/run.py: the convenience entry point ------------- *)
\* A text is a sequence of tokens: the characters that load_dotenv looks at
\* (blank, "#", "=", the two quote characters) and words without any of them.
\* most lines of the .env file
MaxLines == 3

RequiredKeys == <<"AUDIVERIS_EXE", "MUSESCORE_EXE", "JIANPU_QML">>
Whitespace == {" "}
DQ == "\""
SQ == "'"

\* the lines a .env file is made of
Lines ==
    {<<>>, <<"#", "JIANPU_QML", "=", "x">>, <<"x">>}
    \cup UNION {{<<RequiredKeys[k], "=", "x">>,
                 <<" ", RequiredKeys[k], " ", "=", " ", DQ, "x", DQ>>,
                 <<RequiredKeys[k], "=", SQ, SQ>>} : k \in 1..Len(RequiredKeys)}

\* names of the input PDF, as parts separated by dots
PdfNames == {<<"score">>, <<"score", "pdf">>, <<"score", "v2", "pdf">>}

\* str.lstrip / str.rstrip / str.strip
RECURSIVE lstrip(_, _)
lstrip(s, chars) ==
    IF s # <<>> /\ Head(s) \in chars THEN lstrip(Tail(s), chars) ELSE s

RECURSIVE rstrip(_, _)
rstrip(s, chars) ==
    IF s # <<>> /\ s[Len(s)] \in chars THEN rstrip(SubSeq(s, 1, Len(s) - 1), chars) ELSE s

strip(s, chars) == rstrip(lstrip(s, chars), chars)

\* str.find of one character: its first position, 0 when absent
find(s, c) ==
    IF \E i \in 1..Len(s) : s[i] = c
    THEN CHOOSE i \in 1..Len(s) : s[i] = c /\ \A j \in 1..(i - 1) : s[j] # c
    ELSE 0

\* line 20: line.split("=", 1)
split_eq(line) ==
    [k |-> SubSeq(line, 1, find(line, "=") - 1),
     v |-> SubSeq(line, find(line, "=") + 1, Len(line))]

\* a dict is the sequence of its items in insertion order
dict_has(d, key) == \E i \in 1..Len(d) : d[i].key = key
dict_get(d, key) == d[CHOOSE i \in 1..Len(d) : d[i].key = key].value
dict_set(d, key, value) ==
    IF dict_has(d, key)
    THEN [i \in 1..Len(d) |-> IF d[i].key = key THEN [key |-> key, value |-> value] ELSE d[i]]
    ELSE Append(d, [key |-> key, value |-> value])

\* lines 16-21: the loop body from the i-th line on
RECURSIVE load_lines(_, _, _)
load_lines(lines, i, d) ==
    IF i > Len(lines) THEN d
    ELSE LET line == strip(lines[i], Whitespace)
         IN  IF line = <<>> \/ Head(line) = "#" \/ find(line, "=") = 0
             THEN load_lines(lines, i + 1, d)
             ELSE load_lines(lines, i + 1,
                             dict_set(d, strip(split_eq(line).k, Whitespace),
                                      strip(strip(strip(split_eq(line).v, Whitespace), {DQ}), {SQ})))

\* lines 12-22
load_dotenv(f) == IF ~f.exists THEN <<>> ELSE load_lines(f.lines, 1, <<>>)

\* env.get(key) is neither None nor the empty string
truthy(d, key) == dict_has(d, <<key>>) /\ dict_get(d, <<key>>) # <<>>

\* variant: one configured tool is enough
keys_resolved_any(d) == \E k \in 1..Len(RequiredKeys) : truthy(d, RequiredKeys[k])

\* line 41: audiveris_exe and musescore_exe and plugin_qml
keys_resolved(d) == \A k \in 1..Len(RequiredKeys) : truthy(d, RequiredKeys[k])

\* variant: the whole file name is kept
stem_whole(name) == name

\* Path.stem: the file name without its last suffix
stem(name) == IF Len(name) > 1 THEN SubSeq(name, 1, Len(name) - 1) ELSE name

\* lines 57-58: out_dir / f"{pdf_in.stem}_jianpu.<ext>"
out_path(name, ext) == [dir |-> "out_dir", base |-> stem(name), tail |-> "_jianpu", ext |-> ext]

\* a word taken from the loaded configuration
Val(v) == [val |-> v]

\* lines 61-69
run_cmd_line(d, name) ==
    << Lit("sys.executable"), P("main.py"),
       Lit("--pdf-in"), P("pdf_in"),
       Lit("--out-mxl"), out_path(name, "mxl"),
       Lit("--out-pdf"), out_path(name, "pdf"),
       Lit("--audiveris-exe"), Val(dict_get(d, <<"AUDIVERIS_EXE">>)),
       Lit("--musescore-exe"), Val(dict_get(d, <<"MUSESCORE_EXE">>)),
       Lit("--plugin-qml"), Val(dict_get(d, <<"JIANPU_QML">>)) >>

InitRun ==
    /\ pc = "r_load"
    /\ dotenv \in {[exists |-> FALSE, lines |-> <<>>]}
                  \cup {[exists |-> TRUE, lines |-> l] : l \in SeqsUpTo(Lines, MaxLines)}
    /\ env = <<>>
    /\ pdf_name \in PdfNames
    /\ exists \in SUBSET {"pdf_in"}
    /\ force = FALSE
    /\ no_opus = FALSE
    /\ outfiles = {}
    /\ outdirs = FALSE
    /\ tmp = "none"
    /\ aud_out = <<>>
    /\ job = <<>>
    /\ exported = NoPath
    /\ book = NoPath
    /\ log = <<>>
    /\ exitStatus = Running
    /\ err = NoErr

\* line 35
LoadDotenv ==
    /\ pc = "r_load"
    /\ env' = load_dotenv(dotenv)
    /\ pc' = "r_keys"
    /\ UNCHANGED <<exists, force, no_opus, outfiles, outdirs, tmp, aud_out, job, exported, book, log, exitStatus, err, dotenv, pdf_name>>

\* lines 37-48
ResolveKeys ==
    /\ pc = "r_keys"
    /\ IF ~keys_resolved(env)
       THEN Die("SystemExit", "Missing one of these keys in .env",
                {RequiredKeys[k] : k \in 1..Len(RequiredKeys)})
       ELSE /\ pc' = "r_pdf"
            /\ UNCHANGED <<exitStatus, err>>
    /\ UNCHANGED <<exists, force, no_opus, outfiles, outdirs, tmp, aud_out, job, exported, book, log, dotenv, env, pdf_name>>

\* lines 50-52
CheckPdf ==
    /\ pc = "r_pdf"
    /\ IF "pdf_in" \notin exists
       THEN Die("SystemExit", "PDF not found", {"pdf_in"})
       ELSE /\ pc' = "r_mkdir"
            /\ UNCHANGED <<exitStatus, err>>
    /\ UNCHANGED <<exists, force, no_opus, outfiles, outdirs, tmp, aud_out, job, exported, book, log, dotenv, env, pdf_name>>

\* lines 54-55
MakeOutDir ==
    /\ pc = "r_mkdir"
    /\ outdirs' = TRUE
    /\ pc' = "r_launch"
    /\ UNCHANGED <<exists, force, no_opus, outfiles, tmp, aud_out, job, exported, book, log, exitStatus, err, dotenv, env, pdf_name>>

\* lines 57-72: subprocess.run(cmd, check=True)
Launch ==
    /\ pc = "r_launch"
    /\ \E rc \in ExitCodes :
         /\ log' = Append(log, [ev |-> "run", cmd |-> run_cmd_line(env, pdf_name), rc |-> rc])
         /\ IF rc # 0
            THEN Die("CalledProcessError", "returned non-zero exit status", {})
            ELSE /\ pc' = "done"
                 /\ exitStatus' = ExitOk
                 /\ UNCHANGED err
    /\ UNCHANGED <<exists, force, no_opus, outfiles, outdirs, tmp, aud_out, job, exported, book, dotenv, env, pdf_name>>

NextRun ==
    \/ LoadDotenv
    \/ ResolveKeys
    \/ CheckPdf
    \/ MakeOutDir
    \/ Launch

SpecRun == InitRun /\ [][NextRun]_vars

(* ------------------- observations on the run's history ----------------- *)
Events == 1..Len(log)
IsRun(i) == log[i].ev = "run"
IsTranscribeRun(i) == IsRun(i) /\ log[i].cmd[1] = P("audiveris_exe") /\ log[i].cmd[3] = Lit("-transcribe")
IsExportRun(i) == IsRun(i) /\ log[i].cmd[1] = P("audiveris_exe") /\ log[i].cmd[3] = Lit("-export")
IsEditorRun(i) == IsRun(i) /\ log[i].cmd[1] = P("musescore_exe")
IsOmrRun(i) == IsRun(i) /\ log[i].cmd[1] = P("audiveris_exe")
Happened(ev) == \E i \in Events : log[i].ev = ev
Acquired == Happened("acquire")
\* the first consultation of newest_export found an artifact / found none
FirstLookup == CHOOSE i \in Events : log[i].ev = "newest_export" /\ \A j \in 1..(i - 1) : log[j].ev # "newest_export"
SinglePass == Happened("newest_export") /\ ~log[FirstLookup].raised
TwoPass == Happened("newest_export") /\ log[FirstLookup].raised
Recognized(e) == e \in {ExportPatterns[k] : k \in 1..Len(ExportPatterns)}
\* p is an entry of dir with a recognized extension and no recognized entry is newer
IsNewestRecognized(dir, p) ==
    /\ p.idx \in 1..Len(dir)
    /\ dir[p.idx].ext = p.ext
    /\ Recognized(p.ext)
    /\ \A i \in 1..Len(dir) : Recognized(dir[i].ext) => dir[i].mtime <= dir[p.idx].mtime
\* p is a .omr entry of dir and no .omr entry is newer
IsNewestBook(dir, p) ==
    /\ p.idx \in 1..Len(dir)
    /\ dir[p.idx].ext = p.ext
    /\ p.ext = "omr"
    /\ \A i \in 1..Len(dir) : dir[i].ext = "omr" => dir[i].mtime <= dir[p.idx].mtime

(* ------------------------------ claims --------------------------------- *)

\* C1: fail-fast.  Once any of the three external invocations has exited
\* non-zero, the only thing that follows it in the run is the release of the
\* workspace: no later invocation, artifact lookup, job write, output check or
\* success report; the run has ended with a failure status and the workspace
\* is gone.
C1_FailFast ==
    \A i \in Events :
        (IsRun(i) /\ log[i].rc # 0) =>
            /\ Len(log) = i + 1
            /\ log[i + 1].ev = "release"
            /\ pc = "done"
            /\ exitStatus = ExitFail
            /\ err.exc = "RuntimeError"
            /\ tmp = "removed"
            /\ aud_out = <<>>
            /\ job = <<>>

\* the notation editor exited non-zero after a two-pass export
C1_Witness ==
    /\ pc = "done"
    /\ \E i, k \in Events : IsEditorRun(i) /\ log[i].rc # 0 /\ IsExportRun(k) /\ log[k].rc = 0

\* C2: scoped workspace.  Every terminated run that acquired the workspace has
\* removed it, whatever the exit path; and the workspace is live only while
\* the run is inside the with-block.
C2_WorkspaceScoped ==
    /\ (pc = "done" /\ Acquired) => (tmp = "removed" /\ Happened("release"))
    /\ (pc = "validate") => tmp = "removed"
    /\ (tmp = "live") => pc \in {"transcribe", "decide", "export", "job", "editor"}
    /\ (tmp = "none") => ~Acquired

\* the run ended with the book lookup failing, raised inside the with-block
C2_Witness ==
    /\ pc = "done"
    /\ Acquired
    /\ err.msg = "No .omr book found under"
    /\ tmp = "removed"

\* C3: single-pass branch.  When the first lookup after a successful
\* transcription finds an export, the OMR engine is run only once, the book
\* lookup is never consulted, and the artifact found is the newest recognized
\* file, is the resolved export and is the input of the JobSpec.
C3_SinglePass ==
    SinglePass =>
        /\ Cardinality({i \in Events : IsOmrRun(i)}) = 1
        /\ ~Happened("newest_omr_book")
        /\ ~Happened("info_book")
        /\ book = NoPath
        /\ log[FirstLookup + 1].ev = "info_single"
        /\ exported = log[FirstLookup + 1].path
        /\ pc \in {"job", "editor"} => IsNewestRecognized(aud_out, exported)
        /\ pc = "editor" => (Len(job) = 1 /\ job[1].in = exported)
        /\ \A i \in Events : log[i].ev = "write_job" =>
               (i = FirstLookup + 2 /\ log[i].content[1].in = exported)

\* the editor is about to run in a single-pass run whose tree also holds a book
C3_Witness ==
    /\ pc = "editor"
    /\ SinglePass
    /\ \E i \in 1..Len(aud_out) : aud_out[i].ext = "omr"


\* C4: two-pass branch.  When the first lookup finds no export and a book
\* exists, the book chosen is the newest .omr entry; the OMR engine is run
\* exactly once more, in export mode, on that book; after it has exited 0 the
\* export lookup is repeated and its result, the newest recognized file, is
\* the resolved export and the JobSpec input; the JobSpec write and the editor
\* run then follow as in the single-pass branch.
C4_BookChosen ==
    (pc = "decide" /\ newest_export(aud_out).raised
        /\ \E i \in 1..Len(aud_out) : aud_out[i].ext = "omr")
    => (pc' = "export" /\ IsNewestBook(aud_out, book') /\ aud_out' = aud_out)

C4_State ==
    (TwoPass /\ Happened("info_book")) =>
        LET k == FirstLookup + 3
        IN  /\ log[FirstLookup + 1].ev = "newest_omr_book"
            /\ log[FirstLookup + 2] = [ev |-> "info_book", path |-> book]
            /\ pc = "export" => (IsNewestBook(aud_out, book) /\ Len(log) = k - 1)
            /\ pc # "export" =>
                 /\ {i \in Events : IsExportRun(i)} = {k}
                 /\ Cardinality({i \in Events : IsOmrRun(i)}) = 2
                 /\ log[k].cmd = aud_cmd_2(no_opus, book)
                 /\ log[k].cmd[Len(log[k].cmd)] = book
                 /\ log[k].rc = 0 =>
                      /\ log[k + 1].ev = "newest_export"
                      /\ ~log[k + 1].raised =>
                           /\ log[k + 2] = [ev |-> "info_two", path |-> exported]
                           /\ pc \in {"job", "editor"} => IsNewestRecognized(aud_out, exported)
                           /\ pc # "job" =>
                                log[k + 3] = [ev |-> "write_job",
                                              content |-> build_job_json(exported, P("out_mxl"), P("out_pdf"), P("plugin_qml"))]
                           /\ pc = "editor" => job[1].in = exported
                           /\ pc \notin {"job", "editor"} => IsEditorRun(k + 4)

C4_TwoPass == [][C4_BookChosen]_vars /\ []C4_State

\* a two-pass run chose between two books and reached the editor step
C4_Witness ==
    /\ pc = "editor"
    /\ TwoPass
    /\ \E i, j \in 1..Len(aud_out) :
          /\ aud_out[i].ext = "omr" /\ aud_out[j].ext = "omr"
          /\ aud_out[i].mtime < aud_out[j].mtime
          /\ i < j
          /\ book.idx = j

\* C5: when the export lookup fails and no .omr entry exists under the output
\* directory, the run ends at once with the book-lookup failure: no export
\* invocation, no JobSpec, no editor run.
C5_Step ==
    (pc = "decide" /\ newest_export(aud_out).raised
        /\ \A i \in 1..Len(aud_out) : aud_out[i].ext # "omr")
    => /\ pc' = "done"
       /\ exitStatus' = ExitFail
       /\ err' = [exc |-> "RuntimeError", msg |-> "No .omr book found under", names |-> {"audiveris_out"}]
       /\ job' = <<>>
       /\ book' = NoPath

C5_State ==
    (\E i \in Events : log[i].ev = "newest_omr_book" /\ log[i].raised) =>
        /\ pc = "done"
        /\ exitStatus = ExitFail
        /\ err.msg = "No .omr book found under"
        /\ \A i \in Events : ~IsExportRun(i) /\ ~IsEditorRun(i) /\ log[i].ev # "write_job"
        /\ job = <<>>

C5_NoBook == [][C5_Step]_vars /\ []C5_State

\* the run ended because transcription left only unrecognized files
C5_Witness ==
    /\ pc = "done"
    /\ err.msg = "No .omr book found under"
    /\ \E i \in Events : IsTranscribeRun(i) /\ log[i].rc = 0

\* C6: step ordering.  The events of a run occur in step order; the editor
\* runs only after the JobSpec was written, the JobSpec is written only after
\* the export strategy resolved an artifact (which is its input), and the
\* export invocation starts only after transcription exited 0.
StepOf(i) ==
    CASE log[i].ev = "validated" -> 1
      [] log[i].ev = "mkdir_out" -> 2
      [] log[i].ev = "acquire" -> 3
      [] log[i].ev \in {"newest_export", "newest_omr_book", "info_single", "info_book", "info_two"} -> 4
      [] log[i].ev = "write_job" -> 5
      [] log[i].ev = "release" -> 6
      [] log[i].ev = "check_outputs" -> 7
      [] log[i].ev = "report" -> 8
      [] IsRun(i) -> IF IsOmrRun(i) THEN 4 ELSE 6

C6_StepOrdering ==
    /\ \A i \in 1..(Len(log) - 1) : StepOf(i) <= StepOf(i + 1)
    /\ \A i \in Events :
         /\ IsEditorRun(i) => (i > 1 /\ log[i - 1].ev = "write_job")
         /\ log[i].ev = "write_job" =>
               \E j \in 1..(i - 1) : /\ log[j].ev \in {"info_single", "info_two"}
                                     /\ log[i].content[1].in = log[j].path
         /\ IsExportRun(i) => \E j \in 1..(i - 1) : IsTranscribeRun(j) /\ log[j].rc = 0
         /\ (IsRun(i) /\ i < Len(log) /\ log[i + 1].ev # "release") => log[i].rc = 0
    /\ pc = "editor" => (job # <<>> /\ job[1].in = exported)
    /\ pc = "job" => exported # NoPath

\* the editor has run after a two-pass export
C6_Witness ==
    \E i, j \in Events : IsExportRun(i) /\ IsEditorRun(j) /\ log[j].rc = 0

\* C7: exit behaviour.  Success is reported, with exit status 0, only when every
\* child process exited 0 and both output files exist; every failure ends the
\* process with a non-zero status and without the success report.
C7_ExitBehaviour ==
    /\ Happened("report") =>
         /\ pc = "done"
         /\ exitStatus = ExitOk
         /\ err = NoErr
         /\ \A i \in Events : IsRun(i) => log[i].rc = 0
         /\ OutputNames \subseteq outfiles
         /\ log[Len(log)] = [ev |-> "report", mxl |-> P("out_mxl"), pdf |-> P("out_pdf")]
    /\ (pc = "done" /\ exitStatus = ExitOk) => Happened("report")
    /\ (pc = "done" /\ ~Happened("report")) => (err # NoErr /\ exitStatus = ExitFail)
    /\ (pc = "done" /\ (\/ err # NoErr
                        \/ \E i \in Events : IsRun(i) /\ log[i].rc # 0
                        \/ ~(OutputNames \subseteq outfiles)
                        \/ exists # {InputNames[k] : k \in 1..Len(InputNames)}))
         => (exitStatus # ExitOk /\ ~Happened("report"))
    /\ pc # "done" => (exitStatus = Running /\ ~Happened("report"))

\* a two-pass run ended in success
C7_Witness ==
    /\ pc = "done"
    /\ Happened("report")
    /\ TwoPass

\* C8: when the output check fails, the failure names every missing output
\* file (the notation output, the PDF output, or both).
C8_NamesEveryMissing ==
    (pc = "done" /\ Happened("check_outputs") /\ ~(OutputNames \subseteq outfiles)) =>
        /\ err.exc = "SystemExit"
        /\ err.names = OutputNames \ outfiles

\* C9: input validation precedes all effects.  If any of the four input paths
\* is missing, the run ends with a SystemExit naming one missing path and has
\* done nothing else: no child process, no workspace, no output directory; and
\* every program invoked had its path verified earlier in the run.
C9_NoEffect ==
    (exists # {InputNames[k] : k \in 1..Len(InputNames)}) =>
        (outdirs' = outdirs /\ tmp' = tmp /\ outfiles' = outfiles /\ log' = log)

C9_State ==
    /\ (exists # {InputNames[k] : k \in 1..Len(InputNames)}) =>
         /\ log = <<>>
         /\ tmp = "none"
         /\ pc \in {"start", "done"}
         /\ pc = "done" =>
              /\ exitStatus = ExitFail
              /\ err.exc = "SystemExit"
              /\ \E n \in {InputNames[k] : k \in 1..Len(InputNames)} \ exists :
                    err.names = {n} /\ err.msg = InputLabel(n)
    /\ \A i \in Events : IsRun(i) =>
         /\ log[i].cmd[1].path \in exists
         /\ \E j \in 1..(i - 1) : log[j].ev = "validated" /\ log[i].cmd[1].path \in log[j].paths

C9_InputValidation == [][C9_NoEffect]_vars /\ []C9_State

\* the run ended because only the plugin, the last path checked, is missing
C9_Witness ==
    /\ pc = "done"
    /\ err.names = {"plugin_qml"}
    /\ ~outdirs

\* C10: on a tree with at least one recognized file, newest_export returns a
\* recognized entry whose modification time is the largest among the recognized
\* entries, wherever the entries stand in the enumeration and however new the
\* unrecognized ones are.
C10_NewestRecognized ==
    (pc = "located" /\ \E i \in 1..Len(aud_out) : Recognized(aud_out[i].ext)) =>
        /\ err = NoErr
        /\ IsNewestRecognized(aud_out, exported)

\* the newest recognized file is enumerated last by the last pattern, an older
\* recognized file precedes it, and a still newer unrecognized file is present
C10_Witness ==
    /\ pc = "located"
    /\ Len(aud_out) = 3
    /\ \E i, j, k \in 1..3 :
          /\ aud_out[i].ext = "xml" /\ aud_out[j].ext = "mxl" /\ ~Recognized(aud_out[k].ext)
          /\ aud_out[j].mtime < aud_out[i].mtime
          /\ aud_out[i].mtime < aud_out[k].mtime
          /\ j < k /\ k < i
          /\ exported = Entry(i, "xml")

\* C11: on a tree that is empty or holds only entries with unrecognized
\* extensions, newest_export fails with its "No MusicXML export found" error
\* and yields no path at all.
C11_NothingFound ==
    (pc = "located" /\ \A i \in 1..Len(aud_out) : ~Recognized(aud_out[i].ext)) =>
        /\ err = [exc |-> "RuntimeError", msg |-> "No MusicXML export found under",
                  names |-> {"audiveris_out"}]
        /\ exported = NoPath
        /\ log = <<[ev |-> "newest_export", raised |-> TRUE]>>

\* the lookup has failed on a tree of three unrecognized entries, a book among them
C11_Witness ==
    /\ pc = "located"
    /\ Len(aud_out) = 3
    /\ \A i \in 1..3 : ~Recognized(aud_out[i].ext)
    /\ \E i, j \in 1..3 : aud_out[i].ext = "omr" /\ aud_out[j].ext = "log"
    /\ err.exc = "RuntimeError"

\* C14: no retry.  A run makes at most one transcription invocation, at most
\* one export invocation and at most one editor invocation, whatever the exit
\* codes and lookups; exactly one transcription precedes anything later, and a
\* failed invocation is the last invocation of the run.
C14_NoRetry ==
    /\ Cardinality({i \in Events : IsTranscribeRun(i)}) <= 1
    /\ Cardinality({i \in Events : IsExportRun(i)}) <= 1
    /\ Cardinality({i \in Events : IsEditorRun(i)}) <= 1
    /\ Cardinality({i \in Events : IsOmrRun(i)}) <= 2
    /\ pc \in {"decide", "export", "job", "editor", "validate"} =>
          Cardinality({i \in Events : IsTranscribeRun(i)}) = 1
    /\ \A i \in Events : (IsRun(i) /\ log[i].rc # 0) => \A j \in (i + 1)..Len(log) : ~IsRun(j)

\* the run ended because the export invocation, its second and last, failed
C14_Witness ==
    /\ pc = "done"
    /\ Cardinality({i \in Events : IsRun(i)}) = 2
    /\ \E i \in Events : IsExportRun(i) /\ log[i].rc # 0

\* C15: the JobSpec written is one entry whose fields are, in order, in = the
\* resolved export artifact, plugin = the plugin path, out = the notation
\* output path followed by the PDF output path; it is determined by these
\* paths alone, whatever the options, the branch taken and the output files
\* already present.
C15_Expected ==
    << << [key |-> "in", value |-> exported],
          [key |-> "plugin", value |-> P("plugin_qml")],
          [key |-> "out", value |-> <<P("out_mxl"), P("out_pdf")>>] >> >>

C15_JobSpec ==
    /\ pc = "editor" =>
         /\ exported # NoPath
         /\ Len(job) = 1
         /\ DOMAIN job[1] = {"in", "plugin", "out"}
         /\ Len(job[1].out) = 2
         /\ json_dumps(job) = C15_Expected
    /\ \A i \in Events : log[i].ev = "write_job" => json_dumps(log[i].content) = C15_Expected
    /\ job # <<>> => pc = "editor"

\* the JobSpec of a two-pass run with both options set and both outputs present
C15_Witness ==
    /\ pc = "editor"
    /\ TwoPass
    /\ force /\ no_opus
    /\ outfiles = OutputNames
    /\ job[1].in.ext = "musicxml"

\* C16: command vectors.  The transcription command is the engine, -batch,
\* -transcribe, -output, the output directory, -force exactly when the strict
\* option is set, and the PDF; the export command is the engine, -batch,
\* -export, -output, the same output directory, the OPUS option exactly when
\* bundling is not disabled, and the book; -force never occurs in the export
\* command nor the OPUS option in the transcription command.
C16_Has(cmd, w) == \E k \in 1..Len(cmd) : cmd[k] = w

C16_CommandVectors ==
    \A i \in Events :
        /\ IsTranscribeRun(i) =>
             /\ log[i].cmd =
                  IF force
                  THEN <<P("audiveris_exe"), Lit("-batch"), Lit("-transcribe"), Lit("-output"),
                         P("audiveris_out"), Lit("-force"), P("pdf_in")>>
                  ELSE <<P("audiveris_exe"), Lit("-batch"), Lit("-transcribe"), Lit("-output"),
                         P("audiveris_out"), P("pdf_in")>>
             /\ ~C16_Has(log[i].cmd, Lit("-option"))
             /\ ~C16_Has(log[i].cmd, Lit("org.audiveris.omr.sheet.BookManager.useOpus=true"))
        /\ IsExportRun(i) =>
             /\ book.ext = "omr"
             /\ log[i].cmd =
                  IF no_opus
                  THEN <<P("audiveris_exe"), Lit("-batch"), Lit("-export"), Lit("-output"),
                         P("audiveris_out"), book>>
                  ELSE <<P("audiveris_exe"), Lit("-batch"), Lit("-export"), Lit("-output"),
                         P("audiveris_out"), Lit("-option"),
                         Lit("org.audiveris.omr.sheet.BookManager.useOpus=true"), book>>
             /\ ~C16_Has(log[i].cmd, Lit("-force"))
             /\ \E j \in 1..(i - 1) : IsTranscribeRun(j) /\ log[j].cmd[5] = log[i].cmd[5]

\* both passes have run with the strict option set and bundling disabled
C16_Witness ==
    /\ force /\ no_opus
    /\ \E i, j \in Events : IsTranscribeRun(i) /\ IsExportRun(j) /\ Len(log[j].cmd) = 6

\* C18: two-pass branch without a result.  When the export invocation has
\* exited 0 and the repeated lookup still finds no exported notation file, the
\* run ends with the "No MusicXML export found" failure: no third OMR run, no
\* JobSpec, no editor run, and the workspace is removed.  A two-pass run goes
\* on to the JobSpec only with a recognized file under the output directory.
C18_Step ==
    (pc = "export" /\ pc' = "job") =>
        (\E i \in 1..Len(aud_out') : Recognized(aud_out'[i].ext)) /\ IsNewestRecognized(aud_out', exported')

C18_State ==
    \A i \in Events :
        (IsExportRun(i) /\ log[i].rc = 0 /\ log[i + 1] = [ev |-> "newest_export", raised |-> TRUE]) =>
            /\ pc = "done"
            /\ exitStatus = ExitFail
            /\ err = [exc |-> "RuntimeError", msg |-> "No MusicXML export found under",
                      names |-> {"audiveris_out"}]
            /\ exported = NoPath
            /\ Len(log) = i + 2
            /\ log[i + 2].ev = "release"
            /\ Cardinality({j \in Events : IsOmrRun(j)}) = 2
            /\ \A j \in Events : log[j].ev # "write_job" /\ ~IsEditorRun(j)
            /\ tmp = "removed"
            /\ job = <<>>

C18_ExportWithoutResult == [][C18_Step]_vars /\ []C18_State

\* the export invocation exited 0 and the run then ended for want of an export
C18_Witness ==
    /\ pc = "done"
    /\ err.msg = "No MusicXML export found under"
    /\ \E i \in Events : IsExportRun(i) /\ log[i].rc = 0

\* C19: the output check and the success report come only after the workspace
\* has been released: whenever the run is at, or past, the output check, the
\* workspace with its JobSpec and OMR output is gone, and the release is the
\* event just before the check.
C19_ReleasedBeforeValidation ==
    /\ (pc = "validate" \/ Happened("check_outputs") \/ Happened("report")) =>
         /\ tmp = "removed"
         /\ aud_out = <<>>
         /\ job = <<>>
         /\ Happened("write_job")
    /\ \A i \in Events : log[i].ev = "check_outputs" => (i > 1 /\ log[i - 1].ev = "release")
    /\ \A i \in Events : log[i].ev = "report" => (i > 2 /\ log[i - 2].ev = "release")

\* the run ended at the output check because the PDF was not produced
C19_Witness ==
    /\ pc = "done"
    /\ err.msg = "Output PDF not created"
    /\ tmp = "removed"

\* C20: the output check tests existence only and the pipeline never removes
\* a file at a requested output path; so when the editor exits 0 having
\* written nothing, the run reports success exactly when both output files
\* were already there.
C20_Step == outfiles \subseteq outfiles' /\ (pc # "editor" => outfiles' = outfiles)

C20_State ==
    \A i \in Events :
        (pc = "done" /\ IsEditorRun(i) /\ log[i].rc = 0 /\ log[i].wrote = {}) =>
            /\ (OutputNames \subseteq outfiles) => (Happened("report") /\ exitStatus = ExitOk /\ err = NoErr)
            /\ ~(OutputNames \subseteq outfiles) => (~Happened("report") /\ exitStatus = ExitFail)

C20_StaleOutputsAccepted == [][C20_Step]_vars /\ []C20_State

\* success was reported although the editor, exiting 0, wrote neither output
C20_Witness ==
    /\ pc = "done"
    /\ Happened("report")
    /\ outfiles = OutputNames
    /\ \E i \in Events : IsEditorRun(i) /\ log[i].rc = 0 /\ log[i].wrote = {}

(* ------------------- claims on the convenience entry point ------------- *)
\* the required keys the configuration file does not define
AbsentKeys ==
    {RequiredKeys[k] : k \in {j \in 1..Len(RequiredKeys) :
                                 ~dict_has(load_dotenv(dotenv), <<RequiredKeys[j]>>)}}
Launched == \E i \in Events : IsRun(i)

\* C12: whenever a non-empty set of required keys is absent from the
\* configuration file, the run fails and the failure names exactly the absent
\* keys, no more and no fewer.
C12_NamesExactlyAbsent ==
    (pc = "done" /\ AbsentKeys # {}) =>
        /\ exitStatus = ExitFail
        /\ err.exc = "SystemExit"
        /\ err.names = AbsentKeys

\* C13: if any required key is absent from the configuration file (the file
\* itself may not exist), the primary entry point is never launched: the run
\* goes from loading to the key check and ends there in failure, having
\* created no output directory and started no process.
C13_Gating ==
    (AbsentKeys # {}) =>
        /\ pc \in {"r_load", "r_keys", "done"}
        /\ ~Launched
        /\ log = <<>>
        /\ ~outdirs
        /\ pc = "done" => (exitStatus = ExitFail /\ err.exc = "SystemExit"
                           /\ err.msg = "Missing one of these keys in .env")

\* the file exists and defines two of the three keys; the run has failed
C13_Witness ==
    /\ pc = "done"
    /\ exitStatus = ExitFail
    /\ dotenv.exists
    /\ Cardinality(AbsentKeys) = 1
    /\ ~Launched

\* C17: the primary entry point is launched only with all three tool paths
\* resolved to non-empty values of the configuration file and with the input
\* PDF present; it is handed <out_dir>/<PDF name without its last
\* suffix>_jianpu.mxl and .pdf; and when it exits non-zero the run ends in
\* failure, success being reported only after it exited 0.
C17_Base == IF Len(pdf_name) = 1 THEN pdf_name ELSE [i \in 1..(Len(pdf_name) - 1) |-> pdf_name[i]]

C17_Delegation ==
    /\ \A i \in Events :
         IsRun(i) =>
            /\ AbsentKeys = {}
            /\ \A k \in 1..Len(RequiredKeys) :
                 /\ dict_get(env, <<RequiredKeys[k]>>) # <<>>
                 /\ log[i].cmd[8 + 2 * k] = Val(dict_get(load_dotenv(dotenv), <<RequiredKeys[k]>>))
            /\ "pdf_in" \in exists
            /\ log[i].cmd[4] = P("pdf_in")
            /\ log[i].cmd[6] = [dir |-> "out_dir", base |-> C17_Base, tail |-> "_jianpu", ext |-> "mxl"]
            /\ log[i].cmd[8] = [dir |-> "out_dir", base |-> C17_Base, tail |-> "_jianpu", ext |-> "pdf"]
            /\ (log[i].rc # 0) => (pc = "done" /\ exitStatus = ExitFail)
    /\ (pc = "done" /\ exitStatus = ExitOk) => (\E i \in Events : IsRun(i) /\ log[i].rc = 0)

\* the primary entry point was launched for a PDF whose name has two dots,
\* and exited non-zero
C17_Witness ==
    /\ pc = "done"
    /\ Len(pdf_name) = 3
    /\ \E i \in Events : IsRun(i) /\ log[i].rc # 0
    /\ exitStatus = ExitFail

====
